---- MODULE Spec2Model ----
(***************************************************************************)
(* A model of the reliability layer of hquic.py (class GameNetAPI): the    *)
(* sender's retransmission loops and ACK handling, and the receiver's      *)
(* reorder buffer with its timeout-based forward skip; and of the          *)
(* telemetry of game_receiver.py (ReceiverApp, ChannelStats,               *)
(* JitterEstimator).                                                       *)
(*                                                                         *)
(* Time is the wall clock read by now() (time.time()), in milliseconds.    *)
(* Every handler runs to completion within one reading of the clock: the   *)
(* event loop is single-threaded and a handler suspends only at an await.  *)
(*                                                                         *)
(* Specifications: RecvSpec (receiver, any arrivals), RecvFaultSpec (short *)
(* datagrams and a callback that raises), RecvLiveSpec (fair clock and     *)
(* retransmissions), SendSpec (sender, any ACKs), LinkSpec (sender and     *)
(* receiver over an in-order transport), AppSpec (receiver with            *)
(* ReceiverApp.on_receive as its callback), ReportSpec (_report_final) and *)
(* JitterSpec (JitterEstimator.update).                                    *)
(***************************************************************************)
EXTENDS Integers, Sequences, FiniteSets, TLC

\* hquic.py constants, in milliseconds
RETX_INTERVAL == 50
T_THRESHOLD == 200

\* The bytes of a header: struct format "> ? I d" is 1 + 4 + 8 bytes, and
\* parse_header unpacks data[:13]
HEADER_LEN == 13

\* Bounds of the model
MaxSeq == 4      \* sequence numbers a frame arriving at the receiver may carry
MaxSend == 2     \* calls of send_data
MaxTime == 200   \* the clock stops here
MaxAppSeq == 2   \* sequence numbers of the frames the ReceiverApp is run on
MaxUnrel == 2    \* unreliable frames the ReceiverApp records
MaxSent == 2     \* the largest count a STATS summary reports
MaxRecv == 3     \* the largest received count a report is made over
MaxSamples == 3  \* calls of JitterEstimator.update after the first
MaxTs == 2       \* the timestamps of the jitter samples, in ms

Seqs == 1..MaxSeq

\* the seqs an ACK frame may name: those send_data can assign, and one it cannot
AckSeqs == 1..(MaxSend + 1)

\* None stands for a time the code has not set
None == -1

\* The two channels of ReceiverApp, keyed as on_receive selects them
Channels == {"reliable", "unreliable"}

\* The value of report before _report_final has run; a ratio is >= 0 and
\* pdr = None prints "N/A (sender did not report)"
NotReported == -2

\* The report prints the ratio with two decimals: 100 units to a percent
PdrUnit == 100

\* The counts a STATS summary may hold for a channel; None for a missing key
SentCounts == {None} \cup (0..MaxSent)

\* The payload of a frame, as far as on_receive tells payloads apart:
\* application data, or the JSON of a STATS summary
Data == [type |-> "DATA", sent_reliable |-> None, sent_unreliable |-> None]

StatsPayloads ==
    {[type |-> "STATS", sent_reliable |-> x, sent_unreliable |-> y] :
        x, y \in SentCounts}

\* The value of last_in before the first frame: no frame has seq 0
NoFrame == [seq |-> 0, reliable |-> FALSE]

VARIABLES
    now,               \* the clock, time.time(), in ms
    \* ---- receiver side of GameNetAPI
    receive_callback,  \* TRUE when a callback is registered, FALSE for None
    last_delivered,
    pending_reliable,  \* seq -> arrival time of the stored frame
    delivered,         \* the seqs passed to receive_callback with reliable=True, in order
    skipped,           \* the seqs declared lost ("Skipping lost seq"), in order
    last_in,           \* the frame of the latest receive_datagram call, NoFrame before it
    out_acks,          \* the "ACK:seq" datagrams that call handed to the transport
    out_calls,         \* the receive_callback calls that call made: [seq, reliable]
    arrived,           \* the seqs of the reliable frames that arrived so far
    first_arrival,     \* time of the first reliable arrival, None before it
    last_len,          \* len(data[:13]) of the latest receive_datagram call, None before it
    cb_errors,         \* the seqs for which the callback raised during that call
    raised             \* the exception that call let out to its caller, "" for none

recvVars == <<receive_callback, last_delivered, pending_reliable, delivered,
              skipped, last_in, out_acks, out_calls, arrived, first_arrival,
              last_len, cb_errors, raised>>

VARIABLES
    \* ---- sender side of GameNetAPI
    next_seq,
    sent_buffer,       \* seq -> [send_ts, acked, attempts]
    task,              \* seq -> the _send_reliable task of seq: [pc, wake_at]
    tx_count,          \* seq -> number of data frames of seq handed to the transport
    gave_up,           \* the seqs with a "Give up seq" diagnostic
    ack_note,          \* the diagnostic of the latest mark_acked call, "" before it
    late,              \* the seqs whose task was resumed after the time it was due
    returned           \* the values send_data returned, in call order

sendVars == <<next_seq, sent_buffer, task, tx_count, gave_up, ack_note, late,
              returned>>

VARIABLES
    \* ---- ReceiverApp of game_receiver.py: ChannelStats per channel
    recv_count,        \* channel -> ChannelStats.recv_count
    seen_seqs,         \* channel -> ChannelStats.seen_seqs
    total_received,    \* ReceiverApp.total_received
    report,            \* channel -> [received, pdr] of the latest _report_final
    last_summary       \* the sender_summary of the latest _report_final, Data before it

appVars == <<recv_count, seen_seqs, total_received, report, last_summary>>

VARIABLES
    \* ---- one JitterEstimator of game_receiver.py
    J,                 \* the estimate, in units of 1 ms / JScale
    prev_sender_ts,    \* None before the first sample
    prev_arrival_ts,
    j_ret,             \* the value the latest update returned, same unit as J
    n_samples,         \* calls of update so far
    delays             \* the values arrival_ts - sender_ts of the samples so far

jitterVars == <<J, prev_sender_ts, prev_arrival_ts, j_ret, n_samples, delays>>

VARIABLES
    \* ---- the datagram transport between a sender and a receiver
    channel,           \* the data frames in flight, oldest first
    ack_channel        \* the ACK frames in flight, oldest first

linkVars == <<channel, ack_channel>>

vars == <<now, recvVars, sendVars, appVars, jitterVars, linkVars>>

----------------------------------------------------------------------------
\* Helpers on sequences and sets

Range(f) == {f[i] : i \in DOMAIN f}

MinOf(S) == CHOOSE x \in S : \A y \in S : x <= y

\* dict.pop(key): the map without key
Pop(pend, key) == [s \in DOMAIN pend \ {key} |-> pend[s]]

----------------------------------------------------------------------------
\* Receiver: the reorder buffer

\* _cleanup_pending: drop every pending entry with seq <= last_delivered
CleanupPending(pend, ld) ==
    IF DOMAIN pend = {} THEN pend
    ELSE [s \in {x \in DOMAIN pend : x > ld} |-> pend[s]]

\* higher_seqs = [s for s in pending_reliable if s > expected]
HigherSeqs(pend, expected) == {s \in DOMAIN pend : s > expected}

MaxOf(S) == CHOOSE x \in S : \A y \in S : x >= y

\* OldestArrival taking the arrival of the newest pending entry
NewestArrival(pend) == MaxOf({pend[s] : s \in DOMAIN pend})

\* oldest_arrival = min(arr for (_, _, arr) in pending_reliable.values())
OldestArrival(pend) == MinOf({pend[s] : s \in DOMAIN pend})

\* A call of receive_callback(seq, reliable, ...), guarded by
\* "if self.receive_callback"
InvokeCallback(cb, log, seq, reliable) ==
    IF cb THEN Append(log, [seq |-> seq, reliable |-> reliable]) ELSE log

\* GapTimedOut without the wait: a gap is given up as soon as a later seq is held
GapTimedOutNoWait(pend, expected, t) ==
    /\ DOMAIN pend # {}
    /\ HigherSeqs(pend, expected) # {}

\* Case 2 of _try_deliver_in_order: something is pending, a seq after the
\* expected one is, and the oldest pending entry has waited T_THRESHOLD
GapTimedOut(pend, expected, t) ==
    /\ DOMAIN pend # {}
    /\ HigherSeqs(pend, expected) # {}
    /\ t - OldestArrival(pend) >= T_THRESHOLD

\* The callback raises when it is called for seq: bad are the seqs the
\* registered callback fails on
CallbackRaises(cb, bad, seq) == cb /\ seq \in bad

\* DeliverLoop without "self.last_delivered = expected" after a delivery
RECURSIVE DeliverLoopNoAdvance(_, _, _, _, _, _, _, _)
DeliverLoopNoAdvance(cb, bad, ld, pend, calls, errs, skip, t) ==
    LET expected == ld + 1 IN
    IF expected \in DOMAIN pend
    THEN DeliverLoopNoAdvance(cb, bad, ld, CleanupPending(Pop(pend, expected), ld),
                              InvokeCallback(cb, calls, expected, TRUE),
                              IF CallbackRaises(cb, bad, expected)
                              THEN Append(errs, expected) ELSE errs,
                              skip, t)
    ELSE IF GapTimedOut(pend, expected, t)
    THEN DeliverLoopNoAdvance(cb, bad, expected, CleanupPending(pend, expected),
                              calls, errs, Append(skip, expected), t)
    ELSE [last_delivered |-> ld, pending |-> pend, calls |-> calls,
          errors |-> errs, skipped |-> skip, raised |-> FALSE]

\* DeliverLoop without the try/except around the callback: the exception of
\* the callback ends the pass after the pop, before last_delivered is set
RECURSIVE DeliverLoopNoCatch(_, _, _, _, _, _, _, _)
DeliverLoopNoCatch(cb, bad, ld, pend, calls, errs, skip, t) ==
    LET expected == ld + 1 IN
    IF expected \in DOMAIN pend
    THEN IF CallbackRaises(cb, bad, expected)
         THEN [last_delivered |-> ld, pending |-> Pop(pend, expected),
               calls |-> InvokeCallback(cb, calls, expected, TRUE),
               errors |-> Append(errs, expected), skipped |-> skip,
               raised |-> TRUE]
         ELSE DeliverLoopNoCatch(cb, bad, expected,
                                 CleanupPending(Pop(pend, expected), expected),
                                 InvokeCallback(cb, calls, expected, TRUE), errs,
                                 skip, t)
    ELSE IF GapTimedOut(pend, expected, t)
    THEN DeliverLoopNoCatch(cb, bad, expected, CleanupPending(pend, expected),
                            calls, errs, Append(skip, expected), t)
    ELSE [last_delivered |-> ld, pending |-> pend, calls |-> calls,
          errors |-> errs, skipped |-> skip, raised |-> FALSE]

\* DeliverLoop with "if" for "while True": the pass ends after one delivery
RECURSIVE DeliverLoopOnce(_, _, _, _, _, _, _, _)
DeliverLoopOnce(cb, bad, ld, pend, calls, errs, skip, t) ==
    LET expected == ld + 1 IN
    IF expected \in DOMAIN pend
    THEN [last_delivered |-> expected,
          pending |-> CleanupPending(Pop(pend, expected), expected),
          calls |-> InvokeCallback(cb, calls, expected, TRUE),
          errors |-> IF CallbackRaises(cb, bad, expected)
                     THEN Append(errs, expected) ELSE errs,
          skipped |-> skip, raised |-> FALSE]
    ELSE IF GapTimedOut(pend, expected, t)
    THEN DeliverLoopOnce(cb, bad, expected, CleanupPending(pend, expected),
                         calls, errs, Append(skip, expected), t)
    ELSE [last_delivered |-> ld, pending |-> pend, calls |-> calls,
          errors |-> errs, skipped |-> skip, raised |-> FALSE]

\* The "while True" loop of _try_deliver_in_order, one iteration per unfolding.
\* calls are the callback calls made so far by this pass, errs the seqs whose
\* callback raised ("Callback error for seq"), t is the clock. raised tells whether an
\* exception leaves the loop: none does, the only call that can raise is
\* inside try/except Exception.
RECURSIVE DeliverLoop(_, _, _, _, _, _, _, _)
DeliverLoop(cb, bad, ld, pend, calls, errs, skip, t) ==
    LET expected == ld + 1 IN
    IF expected \in DOMAIN pend
    THEN \* Case 1: the expected packet is available; pop, call back inside
         \* try/except, set last_delivered, clean up
         DeliverLoop(cb, bad, expected,
                     CleanupPending(Pop(pend, expected), expected),
                     InvokeCallback(cb, calls, expected, TRUE),
                     IF CallbackRaises(cb, bad, expected)
                     THEN Append(errs, expected) ELSE errs,
                     skip, t)
    ELSE IF GapTimedOut(pend, expected, t)
    THEN \* Case 2: the expected packet is missing and the wait timed out
         DeliverLoop(cb, bad, expected, CleanupPending(pend, expected), calls,
                     errs, Append(skip, expected), t)
    ELSE \* Case 3: nothing more to deliver
         [last_delivered |-> ld, pending |-> pend, calls |-> calls,
          errors |-> errs, skipped |-> skip, raised |-> FALSE]

\* _try_deliver_in_order: the cleanup, then the loop
TryDeliverInOrder(cb, bad, ld, pend, skip, t) ==
    DeliverLoop(cb, bad, ld, CleanupPending(pend, ld), <<>>, <<>>, skip, t)

\* The seqs of a sequence of callback calls
SeqsOf(calls) == [i \in DOMAIN calls |-> calls[i].seq]

\* The lengths of the short datagrams that arrive: empty, one byte, one byte
\* less than a header
ShortLens == {0, 1, HEADER_LEN - 1}

\* parse_header(data): struct.unpack needs all HEADER_LEN bytes of data[:13]
\* and raises struct.error on fewer
ParseHeaderRaises(len) == len < HEADER_LEN

\* The exception an unreliable frame's callback lets out of receive_datagram:
\* the call at the end of receive_datagram is not inside a try
UnreliableRaised(cb, bad, seq) ==
    IF CallbackRaises(cb, bad, seq) THEN "callback" ELSE ""

\* ReceiveDatagram sending the ACK only for a frame it stores
ReceiveDatagramAckFresh(reliable, seq, bad) ==
    /\ last_len' = HEADER_LEN
    /\ last_in' = [seq |-> seq, reliable |-> reliable]
    /\ first_arrival' = IF reliable /\ first_arrival = None THEN now ELSE first_arrival
    /\ arrived' = IF reliable THEN arrived \cup {seq} ELSE arrived
    /\ IF reliable
       THEN IF seq <= last_delivered \/ seq \in DOMAIN pending_reliable
            THEN /\ out_acks' = <<>>
                 /\ out_calls' = <<>>
                 /\ cb_errors' = <<>>
                 /\ raised' = ""
                 /\ UNCHANGED <<last_delivered, pending_reliable, delivered, skipped>>
            ELSE LET stored == [s \in DOMAIN pending_reliable \cup {seq} |->
                                   IF s = seq THEN now ELSE pending_reliable[s]]
                     r == TryDeliverInOrder(receive_callback, bad, last_delivered,
                                            stored, skipped, now)
                 IN /\ out_acks' = <<seq>>
                    /\ last_delivered' = r.last_delivered
                    /\ pending_reliable' = r.pending
                    /\ out_calls' = r.calls
                    /\ delivered' = delivered \o SeqsOf(r.calls)
                    /\ skipped' = r.skipped
                    /\ cb_errors' = r.errors
                    /\ raised' = IF r.raised THEN "callback" ELSE ""
       ELSE /\ out_acks' = <<>>
            /\ out_calls' = InvokeCallback(receive_callback, <<>>, seq, FALSE)
            /\ cb_errors' = IF CallbackRaises(receive_callback, bad, seq)
                            THEN <<seq>> ELSE <<>>
            /\ raised' = UnreliableRaised(receive_callback, bad, seq)
            /\ UNCHANGED <<last_delivered, pending_reliable, delivered, skipped>>
    /\ UNCHANGED <<now, receive_callback, sendVars>>

\* ReceiveDatagram applying the stale test to both channels: an unreliable
\* frame with seq <= last_delivered is dropped without a callback
ReceiveDatagramStaleUnreliable(reliable, seq, bad) ==
    /\ last_len' = HEADER_LEN
    /\ last_in' = [seq |-> seq, reliable |-> reliable]
    /\ first_arrival' = IF reliable /\ first_arrival = None THEN now ELSE first_arrival
    /\ arrived' = IF reliable THEN arrived \cup {seq} ELSE arrived
    /\ IF reliable
       THEN \* the ACK goes out before the stale and duplicate tests
            /\ out_acks' = <<seq>>
            /\ IF seq <= last_delivered \/ seq \in DOMAIN pending_reliable
               THEN /\ out_calls' = <<>>
                    /\ cb_errors' = <<>>
                    /\ raised' = ""
                    /\ UNCHANGED <<last_delivered, pending_reliable, delivered, skipped>>
               ELSE LET stored == [s \in DOMAIN pending_reliable \cup {seq} |->
                                      IF s = seq THEN now ELSE pending_reliable[s]]
                        r == TryDeliverInOrder(receive_callback, bad, last_delivered,
                                               stored, skipped, now)
                    IN /\ last_delivered' = r.last_delivered
                       /\ pending_reliable' = r.pending
                       /\ out_calls' = r.calls
                       /\ delivered' = delivered \o SeqsOf(r.calls)
                       /\ skipped' = r.skipped
                       /\ cb_errors' = r.errors
                       /\ raised' = IF r.raised THEN "callback" ELSE ""
       ELSE IF seq <= last_delivered
       THEN /\ out_acks' = <<>>
            /\ out_calls' = <<>>
            /\ cb_errors' = <<>>
            /\ raised' = ""
            /\ UNCHANGED <<last_delivered, pending_reliable, delivered, skipped>>
       ELSE /\ out_acks' = <<>>
            /\ out_calls' = InvokeCallback(receive_callback, <<>>, seq, FALSE)
            /\ cb_errors' = IF CallbackRaises(receive_callback, bad, seq)
                            THEN <<seq>> ELSE <<>>
            /\ raised' = UnreliableRaised(receive_callback, bad, seq)
            /\ UNCHANGED <<last_delivered, pending_reliable, delivered, skipped>>
    /\ UNCHANGED <<now, receive_callback, sendVars>>

\* receive_datagram(data) for a well-formed frame carrying (reliable, seq),
\* with a callback that raises on the seqs in bad
ReceiveDatagram(reliable, seq, bad) ==
    /\ last_len' = HEADER_LEN
    /\ last_in' = [seq |-> seq, reliable |-> reliable]
    /\ first_arrival' = IF reliable /\ first_arrival = None THEN now ELSE first_arrival
    /\ arrived' = IF reliable THEN arrived \cup {seq} ELSE arrived
    /\ IF reliable
       THEN \* the ACK goes out before the stale and duplicate tests
            /\ out_acks' = <<seq>>
            /\ IF seq <= last_delivered \/ seq \in DOMAIN pending_reliable
               THEN /\ out_calls' = <<>>
                    /\ cb_errors' = <<>>
                    /\ raised' = ""
                    /\ UNCHANGED <<last_delivered, pending_reliable, delivered, skipped>>
               ELSE LET stored == [s \in DOMAIN pending_reliable \cup {seq} |->
                                      IF s = seq THEN now ELSE pending_reliable[s]]
                        r == TryDeliverInOrder(receive_callback, bad, last_delivered,
                                               stored, skipped, now)
                    IN /\ last_delivered' = r.last_delivered
                       /\ pending_reliable' = r.pending
                       /\ out_calls' = r.calls
                       /\ delivered' = delivered \o SeqsOf(r.calls)
                       /\ skipped' = r.skipped
                       /\ cb_errors' = r.errors
                       /\ raised' = IF r.raised THEN "callback" ELSE ""
       ELSE /\ out_acks' = <<>>
            /\ out_calls' = InvokeCallback(receive_callback, <<>>, seq, FALSE)
            /\ cb_errors' = IF CallbackRaises(receive_callback, bad, seq)
                            THEN <<seq>> ELSE <<>>
            /\ raised' = UnreliableRaised(receive_callback, bad, seq)
            /\ UNCHANGED <<last_delivered, pending_reliable, delivered, skipped>>
    /\ UNCHANGED <<now, receive_callback, sendVars>>

\* receive_datagram(data) for data of len bytes, len < HEADER_LEN: parse_header
\* raises in the first statement, nothing catches it, and the exception leaves
\* receive_datagram and quic_event_received
ReceiveShortDatagram(len) ==
    /\ ParseHeaderRaises(len)
    /\ last_len' = len
    /\ last_in' = NoFrame
    /\ out_acks' = <<>>
    /\ out_calls' = <<>>
    /\ cb_errors' = <<>>
    /\ raised' = "struct.error"
    /\ UNCHANGED <<last_delivered, pending_reliable, delivered, skipped, arrived,
                   first_arrival>>
    /\ UNCHANGED <<now, receive_callback, sendVars>>

\* quic_event_received for a data frame: the transport may hand over any frame,
\* in any order, any number of times; the callback returns normally
DataFrameArrives ==
    \E seq \in Seqs, reliable \in BOOLEAN :
        /\ ReceiveDatagram(reliable, seq, {})
        /\ UNCHANGED <<appVars, jitterVars, linkVars>>

\* The seqs receive_datagram(reliable, seq) calls the callback for: where the
\* callback is not called, whether it would raise makes no difference
Callable(reliable, seq) ==
    IF ~receive_callback THEN {}
    ELSE IF ~reliable THEN {seq}
    ELSE IF seq <= last_delivered \/ seq \in DOMAIN pending_reliable THEN {}
    ELSE LET stored == [s \in DOMAIN pending_reliable \cup {seq} |->
                           IF s = seq THEN now ELSE pending_reliable[s]]
         IN  Range(SeqsOf(TryDeliverInOrder(TRUE, {}, last_delivered, stored,
                                            skipped, now).calls))

\* The failures of the callback over the calls for the seqs S: it raises on
\* none of them, on one of them, or on all of them
FailureSets(S) == {{}} \cup {{s} : s \in S} \cup {S}

\* quic_event_received for a data frame when the callback may raise on any of
\* its calls
FaultyFrameArrives ==
    \E seq \in Seqs, reliable \in BOOLEAN :
        \E bad \in FailureSets(Callable(reliable, seq)) :
            /\ ReceiveDatagram(reliable, seq, bad)
            /\ UNCHANGED <<appVars, jitterVars, linkVars>>

\* quic_event_received for a datagram that is not an ACK and is shorter than
\* a header
ShortFrameArrives ==
    \E len \in ShortLens :
        /\ ReceiveShortDatagram(len)
        /\ UNCHANGED <<appVars, jitterVars, linkVars>>

\* Time passes
Tick ==
    /\ now + RETX_INTERVAL <= MaxTime
    /\ now' = now + RETX_INTERVAL
    /\ UNCHANGED <<recvVars, sendVars, appVars, jitterVars, linkVars>>

----------------------------------------------------------------------------
\* Sender: send_data, the retransmission loops and ACK handling

\* SendData taking a new number only for a reliable send: an unreliable frame
\* carries the number of the next reliable one
SendDataReliableCounter(reliable) ==
    LET seq == next_seq IN
    /\ next_seq <= MaxSend
    /\ next_seq' = IF reliable THEN next_seq + 1 ELSE next_seq
    /\ IF reliable
       THEN /\ sent_buffer' = [s \in DOMAIN sent_buffer \cup {seq} |->
                                  IF s = seq
                                  THEN [send_ts |-> now, acked |-> FALSE, attempts |-> 0]
                                  ELSE sent_buffer[s]]
            \* asyncio.create_task(self._send_reliable(seq)): runs later
            /\ task' = [s \in DOMAIN task \cup {seq} |->
                           IF s = seq THEN [pc |-> "ready", wake_at |-> now]
                           ELSE task[s]]
            /\ UNCHANGED tx_count
       ELSE /\ tx_count' = [tx_count EXCEPT ![seq] = @ + 1]
            /\ UNCHANGED <<sent_buffer, task>>
    /\ returned' = Append(returned, seq)
    /\ UNCHANGED <<now, recvVars, gave_up, ack_note, late>>

\* send_data(payload, reliable): returns seq
SendData(reliable) ==
    LET seq == next_seq IN
    /\ next_seq <= MaxSend
    /\ next_seq' = next_seq + 1
    /\ IF reliable
       THEN /\ sent_buffer' = [s \in DOMAIN sent_buffer \cup {seq} |->
                                  IF s = seq
                                  THEN [send_ts |-> now, acked |-> FALSE, attempts |-> 0]
                                  ELSE sent_buffer[s]]
            \* asyncio.create_task(self._send_reliable(seq)): runs later
            /\ task' = [s \in DOMAIN task \cup {seq} |->
                           IF s = seq THEN [pc |-> "ready", wake_at |-> now]
                           ELSE task[s]]
            /\ UNCHANGED tx_count
       ELSE /\ tx_count' = [tx_count EXCEPT ![seq] = @ + 1]
            /\ UNCHANGED <<sent_buffer, task>>
    /\ returned' = Append(returned, seq)
    /\ UNCHANGED <<now, recvVars, gave_up, ack_note, late>>

\* A task that has returned
Done == [pc |-> "done", wake_at |-> None]

\* The task of seq may run: it was created and has not started, or its
\* asyncio.sleep(RETX_INTERVAL) is over. The event loop resumes it then or later.
Runnable(seq) ==
    /\ seq \in DOMAIN task
    /\ \/ task[seq].pc = "ready"
       \/ task[seq].pc = "sleeping" /\ now >= task[seq].wake_at

\* RunTask giving up only when the elapsed time exceeds T_THRESHOLD (> for >=)
RunTaskStrictDeadline(seq) ==
    LET entry == sent_buffer[seq] IN
    /\ Runnable(seq)
    /\ late' = IF now > task[seq].wake_at THEN late \cup {seq} ELSE late
    /\ IF entry.acked
       THEN /\ task' = [task EXCEPT ![seq] = Done]
            /\ UNCHANGED <<sent_buffer, tx_count, gave_up>>
       ELSE IF entry.attempts > 0 /\ now - entry.send_ts > T_THRESHOLD
       THEN /\ gave_up' = gave_up \cup {seq}
            /\ sent_buffer' = Pop(sent_buffer, seq)
            /\ task' = [task EXCEPT ![seq] = Done]
            /\ UNCHANGED tx_count
       ELSE /\ tx_count' = [tx_count EXCEPT ![seq] = @ + 1]
            /\ sent_buffer' = [sent_buffer EXCEPT ![seq].attempts = @ + 1]
            /\ task' = [task EXCEPT ![seq] =
                           [pc |-> "sleeping", wake_at |-> now + RETX_INTERVAL]]
            /\ UNCHANGED gave_up
    /\ UNCHANGED <<now, recvVars, next_seq, ack_note, returned>>

\* RunTask testing the deadline before the acked flag
RunTaskDeadlineFirst(seq) ==
    LET entry == sent_buffer[seq] IN
    /\ Runnable(seq)
    /\ late' = IF now > task[seq].wake_at THEN late \cup {seq} ELSE late
    /\ IF entry.attempts > 0 /\ now - entry.send_ts >= T_THRESHOLD
       THEN /\ gave_up' = gave_up \cup {seq}
            /\ sent_buffer' = Pop(sent_buffer, seq)
            /\ task' = [task EXCEPT ![seq] = Done]
            /\ UNCHANGED tx_count
       ELSE IF entry.acked
       THEN /\ task' = [task EXCEPT ![seq] = Done]
            /\ UNCHANGED <<sent_buffer, tx_count, gave_up>>
       ELSE /\ tx_count' = [tx_count EXCEPT ![seq] = @ + 1]
            /\ sent_buffer' = [sent_buffer EXCEPT ![seq].attempts = @ + 1]
            /\ task' = [task EXCEPT ![seq] =
                           [pc |-> "sleeping", wake_at |-> now + RETX_INTERVAL]]
            /\ UNCHANGED gave_up
    /\ UNCHANGED <<now, recvVars, next_seq, ack_note, returned>>

\* _send_reliable(seq), from one suspension point to the next: the test of the
\* while loop and one iteration of its body, up to the await
RunTask(seq) ==
    LET entry == sent_buffer[seq] IN
    /\ Runnable(seq)
    /\ late' = IF now > task[seq].wake_at THEN late \cup {seq} ELSE late
    /\ IF entry.acked
       THEN \* while not entry["acked"]: the loop is over
            /\ task' = [task EXCEPT ![seq] = Done]
            /\ UNCHANGED <<sent_buffer, tx_count, gave_up>>
       ELSE IF entry.attempts > 0 /\ now - entry.send_ts >= T_THRESHOLD
       THEN \* give up: del self.sent_buffer[seq]; break
            /\ gave_up' = gave_up \cup {seq}
            /\ sent_buffer' = Pop(sent_buffer, seq)
            /\ task' = [task EXCEPT ![seq] = Done]
            /\ UNCHANGED tx_count
       ELSE \* send the frame, count the attempt, sleep
            /\ tx_count' = [tx_count EXCEPT ![seq] = @ + 1]
            /\ sent_buffer' = [sent_buffer EXCEPT ![seq].attempts = @ + 1]
            /\ task' = [task EXCEPT ![seq] =
                           [pc |-> "sleeping", wake_at |-> now + RETX_INTERVAL]]
            /\ UNCHANGED gave_up
    /\ UNCHANGED <<now, recvVars, next_seq, ack_note, returned>>

\* The event loop runs one of the tasks that may run
TaskRuns ==
    \E seq \in DOMAIN task :
        RunTask(seq) /\ UNCHANGED <<appVars, jitterVars, linkVars>>

\* MarkAcked creating the entry it does not find (setdefault for get)
MarkAckedCreates(seq) ==
    /\ sent_buffer' = [s \in DOMAIN sent_buffer \cup {seq} |->
                          IF s = seq
                          THEN [send_ts |-> IF seq \in DOMAIN sent_buffer
                                            THEN sent_buffer[seq].send_ts ELSE now,
                                acked |-> TRUE,
                                attempts |-> IF seq \in DOMAIN sent_buffer
                                             THEN sent_buffer[seq].attempts ELSE 0]
                          ELSE sent_buffer[s]]
    /\ ack_note' = IF seq \in DOMAIN sent_buffer
                   THEN "ACK received" ELSE "ACK for already-removed seq"
    /\ UNCHANGED <<now, recvVars, next_seq, task, tx_count, gave_up, late, returned>>

\* mark_acked(seq)
MarkAcked(seq) ==
    /\ IF seq \in DOMAIN sent_buffer
       THEN /\ sent_buffer' = [sent_buffer EXCEPT ![seq].acked = TRUE]
            /\ ack_note' = "ACK received"
       ELSE /\ UNCHANGED sent_buffer
            /\ ack_note' = "ACK for already-removed seq"
    /\ UNCHANGED <<now, recvVars, next_seq, task, tx_count, gave_up, late, returned>>

\* quic_event_received for a datagram "ACK:<seq>": the peer may name any seq
AckFrameArrives ==
    \E seq \in AckSeqs :
        MarkAcked(seq) /\ UNCHANGED <<appVars, jitterVars, linkVars>>

\* The application sends
AppSends ==
    \E reliable \in BOOLEAN :
        SendData(reliable) /\ UNCHANGED <<appVars, jitterVars, linkVars>>

----------------------------------------------------------------------------
\* ReceiverApp of game_receiver.py: the callback registered with the API

\* The state of the application as one record
AppState ==
    [recv_count |-> recv_count, seen_seqs |-> seen_seqs,
     total_received |-> total_received, report |-> report,
     last_summary |-> last_summary]

\* sender_summary.get("sent_reliable", 0), sender_summary.get("sent_unreliable", 0)
SummaryGet(summary, chan) ==
    LET v == IF chan = "reliable" THEN summary.sent_reliable
             ELSE summary.sent_unreliable
    IN  IF v = None THEN 0 ELSE v

\* received / sent * 100.0 if sent > 0 else None, in the unit the report
\* prints ("{pdr:.2f} %"): hundredths of a percent, rounded to the nearest
Pdr(received, sent) ==
    IF sent > 0
    THEN (2 * received * 100 * PdrUnit + sent) \div (2 * sent)
    ELSE None

\* ReportFinal dividing the count of each channel by the count the sender
\* reported for the other channel
ReportFinalSwapped(counts, summary) ==
    [c \in Channels |->
        [received |-> counts[c],
         pdr |-> Pdr(counts[c],
                     SummaryGet(summary, IF c = "reliable" THEN "unreliable"
                                         ELSE "reliable"))]]

\* _report_final(sender_summary): per channel the received count and the
\* delivery ratio
ReportFinal(counts, summary) ==
    [c \in Channels |->
        [received |-> counts[c], pdr |-> Pdr(counts[c], SummaryGet(summary, c))]]

\* on_receive(seq, reliable, sender_ts, payload, rtt): a STATS message is
\* reported and not recorded, any other payload is recorded by
\* ChannelStats.record of its channel
OnReceive(app, seq, reliable, payload) ==
    LET chan == IF reliable THEN "reliable" ELSE "unreliable" IN
    IF payload.type = "STATS"
    THEN [app EXCEPT !.report = ReportFinal(app.recv_count, payload),
                     !.last_summary = payload]
    ELSE [app EXCEPT !.recv_count[chan] = @ + 1,
                     !.seen_seqs[chan] = @ \cup {seq},
                     !.total_received = @ + 1]

\* The calls of on_receive made by one call of receive_datagram, in order;
\* payloads gives the payload of the frame of each seq
RECURSIVE OnReceiveAll(_, _, _)
OnReceiveAll(app, calls, payloads) ==
    IF calls = <<>> THEN app
    ELSE OnReceiveAll(OnReceive(app, Head(calls).seq, Head(calls).reliable,
                                payloads[Head(calls).seq]),
                      Tail(calls), payloads)

\* The payloads of the frames with the seqs S: application data, but for at
\* most one STATS message
PayloadChoices(S) ==
    {[s \in S |-> Data]}
    \cup {[s \in S |-> IF s = x THEN p ELSE Data] : x \in S, p \in StatsPayloads}

\* quic_event_received for a data frame, with ReceiverApp.on_receive as the
\* callback
AppFrameArrives ==
    \E seq \in 1..MaxAppSeq, reliable \in BOOLEAN :
        /\ ~reliable => recv_count["unreliable"] < MaxUnrel
        /\ ReceiveDatagram(reliable, seq, {})
        /\ \E payloads \in PayloadChoices(Callable(reliable, seq)) :
               LET app == OnReceiveAll(AppState, out_calls', payloads)
               IN  /\ recv_count' = app.recv_count
                   /\ seen_seqs' = app.seen_seqs
                   /\ total_received' = app.total_received
                   /\ report' = app.report
                   /\ last_summary' = app.last_summary
        /\ UNCHANGED <<jitterVars, linkVars>>

----------------------------------------------------------------------------
\* JitterEstimator of game_receiver.py

RECURSIVE Pow16(_)
Pow16(n) == IF n = 0 THEN 1 ELSE 16 * Pow16(n - 1)

\* J is held in units of 1 ms / JScale, so that J + (D - J) / 16.0 is exact
\* over MaxSamples updates
JScale == Pow16(MaxSamples)

Abs(x) == IF x < 0 THEN -x ELSE x

\* D of JitterDelta taken as the transit time of the sample, without the
\* previous sample
JitterDeltaTransit(prev_s, prev_a, sender_ts, arrival_ts) ==
    Abs(arrival_ts - sender_ts)

\* D = abs((arrival_ts - prev_arrival_ts) - (sender_ts - prev_sender_ts)), in ms
JitterDelta(prev_s, prev_a, sender_ts, arrival_ts) ==
    Abs((arrival_ts - prev_a) - (sender_ts - prev_s))

\* JitterEstimator.update(sender_ts, arrival_ts)
JitterUpdate(sender_ts, arrival_ts) ==
    /\ n_samples' = n_samples + 1
    /\ delays' = delays \cup {arrival_ts - sender_ts}
    /\ prev_sender_ts' = sender_ts
    /\ prev_arrival_ts' = arrival_ts
    /\ IF prev_sender_ts = None
       THEN \* the first sample: return self.J
            /\ J' = J
            /\ j_ret' = J
       ELSE LET D == JitterDelta(prev_sender_ts, prev_arrival_ts, sender_ts, arrival_ts)
                newJ == J + (D * JScale - J) \div 16
            IN  /\ J' = newJ
                /\ j_ret' = newJ
    /\ UNCHANGED <<now, recvVars, sendVars, appVars, linkVars>>

\* A sample arrives: the timestamps of the sender and of the arrival are any
JitterSample ==
    \E sender_ts \in 0..MaxTs, arrival_ts \in 0..MaxTs :
        /\ n_samples <= MaxSamples
        /\ JitterUpdate(sender_ts, arrival_ts)

----------------------------------------------------------------------------
\* A sender and a receiver joined by a transport

\* The application sends: an unreliable frame goes to the transport at once
LinkSends ==
    \E reliable \in BOOLEAN :
        /\ SendData(reliable)
        /\ channel' = IF reliable THEN channel
                      ELSE Append(channel, [seq |-> next_seq, reliable |-> FALSE])
        /\ UNCHANGED <<ack_channel, appVars, jitterVars>>

\* A retransmission task runs: the frame it sends goes to the transport.
\* The event loop starts the tasks in the order create_task made them.
LinkTaskRuns ==
    \E seq \in DOMAIN task :
        /\ \A o \in DOMAIN task : o < seq => task[o].pc # "ready"
        /\ RunTask(seq)
        /\ channel' = IF tx_count'[seq] > tx_count[seq]
                      THEN Append(channel, [seq |-> seq, reliable |-> TRUE])
                      ELSE channel
        /\ UNCHANGED <<ack_channel, appVars, jitterVars>>

\* The transport hands the oldest data frame to the receiver, whose ACK goes
\* to the transport
LinkDelivers ==
    /\ channel # <<>>
    /\ ReceiveDatagram(Head(channel).reliable, Head(channel).seq, {})
    /\ channel' = Tail(channel)
    /\ ack_channel' = ack_channel \o out_acks'
    /\ UNCHANGED <<appVars, jitterVars>>

\* The transport hands the oldest ACK frame to the sender
LinkAckDelivers ==
    /\ ack_channel # <<>>
    /\ MarkAcked(Head(ack_channel))
    /\ ack_channel' = Tail(ack_channel)
    /\ UNCHANGED <<channel, appVars, jitterVars>>

----------------------------------------------------------------------------

\* GameNetAPI.__init__, with or without a callback set afterwards
InitApi ==
    /\ now = 0
    /\ receive_callback \in BOOLEAN
    /\ last_delivered = 0
    /\ pending_reliable = <<>>
    /\ delivered = <<>>
    /\ skipped = <<>>
    /\ last_in = NoFrame
    /\ out_acks = <<>>
    /\ out_calls = <<>>
    /\ arrived = {}
    /\ first_arrival = None
    /\ next_seq = 1
    /\ sent_buffer = <<>>
    /\ task = <<>>
    /\ tx_count = [s \in 1..MaxSend |-> 0]
    /\ gave_up = {}
    /\ ack_note = ""
    /\ late = {}
    /\ last_len = None
    /\ cb_errors = <<>>
    /\ raised = ""
    /\ returned = <<>>
    /\ channel = <<>>
    /\ ack_channel = <<>>

\* No report yet
InitReport ==
    /\ report = [c \in Channels |-> [received |-> 0, pdr |-> NotReported]]
    /\ last_summary = Data

\* ReceiverApp.__init__ and ChannelStats.__init__
InitApp ==
    /\ recv_count = [c \in Channels |-> 0]
    /\ seen_seqs = [c \in Channels |-> {}]
    /\ total_received = 0
    /\ InitReport

\* JitterEstimator.__init__
InitJitter ==
    /\ J = 0
    /\ prev_sender_ts = None
    /\ prev_arrival_ts = None
    /\ j_ret = 0
    /\ n_samples = 0
    /\ delays = {}

Init == InitApi /\ InitApp /\ InitJitter

RecvNext ==
    \/ Tick
    \/ DataFrameArrives

RecvSpec == Init /\ [][RecvNext]_vars

\* The receiver with its faults: short datagrams arrive and the registered
\* callback may raise
RecvFaultNext ==
    \/ Tick
    \/ FaultyFrameArrives
    \/ ShortFrameArrives

RecvFaultInit == Init /\ receive_callback

RecvFaultSpec == RecvFaultInit /\ [][RecvFaultNext]_vars

\* The receiver with ReceiverApp.on_receive registered (set_protocol)
AppInit == Init /\ receive_callback

AppNext == AppFrameArrives

AppSpec == AppInit /\ [][AppNext]_vars

\* _report_final as a function of its inputs: the counts of the two channels
\* are any counts a run can have reached, each over that many distinct seqs
ReportInit ==
    /\ InitApi
    /\ InitJitter
    /\ InitReport
    /\ \E counts \in [Channels -> 0..MaxRecv] :
           /\ recv_count = counts
           /\ seen_seqs = [c \in Channels |-> 1..counts[c]]
           /\ total_received = counts["reliable"] + counts["unreliable"]

\* on_receive is called with the STATS message of the sender
ReportRuns ==
    \E summary \in StatsPayloads, reliable \in BOOLEAN, seq \in 1..MaxAppSeq :
        LET app == OnReceive(AppState, seq, reliable, summary)
        IN  /\ recv_count' = app.recv_count
            /\ seen_seqs' = app.seen_seqs
            /\ total_received' = app.total_received
            /\ report' = app.report
            /\ last_summary' = app.last_summary
            /\ UNCHANGED <<now, recvVars, sendVars, jitterVars, linkVars>>

ReportNext == ReportRuns

ReportSpec == ReportInit /\ [][ReportNext]_vars

\* One JitterEstimator fed with samples
JitterNext == JitterSample

JitterSpec == Init /\ [][JitterNext]_vars

\* A sender and a receiver with a transport between them that delivers every
\* frame once and in the order sent; the receiver has a callback registered
LinkInit == Init /\ receive_callback

LinkNext ==
    \/ Tick
    \/ LinkSends
    \/ LinkTaskRuns
    \/ LinkDelivers
    \/ LinkAckDelivers

LinkSpec == LinkInit /\ [][LinkNext]_vars

\* A retransmitted copy of a frame that is already pending arrives
DuplicateArrives ==
    \E seq \in DOMAIN pending_reliable :
        /\ ReceiveDatagram(TRUE, seq, {})
        /\ UNCHANGED <<appVars, jitterVars, linkVars>>

\* The receiver when time goes on and the sender keeps retransmitting the
\* frames the receiver holds
RecvLiveSpec == RecvSpec /\ WF_vars(Tick) /\ WF_vars(DuplicateArrives)

SendNext ==
    \/ Tick
    \/ AppSends
    \/ TaskRuns
    \/ AckFrameArrives

\* The sender alone: its peer has a callback registered
SendInit == Init /\ receive_callback

SendSpec == SendInit /\ [][SendNext]_vars

----------------------------------------------------------------------------
\* Properties of the receiver (RecvSpec)

StrictlyIncreasing(q) == \A i, j \in DOMAIN q : i < j => q[i] < q[j]

NoRepeat(q) == \A i, j \in DOMAIN q : i # j => q[i] # q[j]

\* The latest receive_datagram call was for the reliable frame seq
LastInReliable(seq) == last_in = [seq |-> seq, reliable |-> TRUE]

\* C1: whatever the order, duplication and loss of the reliable frames that
\* arrive, the seqs passed to the callback with reliable=True are strictly
\* increasing: no reliable seq is delivered after a larger one.
ReliableDeliveryStrictlyIncreasing == StrictlyIncreasing(delivered)

\* C1 witness: frames were delivered, one was skipped as lost, and the latest
\* arrival is a stale reliable frame below the watermark.
ReliableDeliveryStrictlyIncreasingWitness ==
    /\ Len(delivered) >= 2
    /\ Len(skipped) >= 1
    /\ last_in.reliable
    /\ last_in.seq < last_delivered

\* C2: last_delivered never decreases from one state to the next, and no
\* reliable seq is passed to the callback twice, also when a skipped seq
\* arrives later or a delivered seq arrives again.
MonotonicWatermark ==
    [][last_delivered' >= last_delivered /\ NoRepeat(delivered')]_vars

\* C2 witness: the seq that was skipped first has arrived afterwards, with
\* frames delivered.
MonotonicWatermarkWitness ==
    /\ Len(skipped) >= 1
    /\ Len(delivered) >= 1
    /\ LastInReliable(skipped[1])

\* C3: with a callback registered and every reliable arrival so far less than
\* T_THRESHOLD after the first one, nothing has been skipped, and once the
\* seqs that arrived are exactly 1..n the callback has been called exactly
\* for 1, 2, ..., n in that order.
InOrderDelivery ==
    (receive_callback /\ first_arrival # None /\ now - first_arrival < T_THRESHOLD)
    => /\ skipped = <<>>
       /\ \A n \in Seqs : arrived = 1..n => delivered = [i \in 1..n |-> i]

\* C3 witness: the arrivals 1, 3, 2 within the threshold: the arrival of 2
\* delivered 2 and 3, after 1.
InOrderDeliveryWitness ==
    /\ receive_callback
    /\ first_arrival # None
    /\ now - first_arrival < T_THRESHOLD
    /\ arrived = {1, 2, 3}
    /\ LastInReliable(2)
    /\ out_calls = <<[seq |-> 2, reliable |-> TRUE], [seq |-> 3, reliable |-> TRUE]>>
    /\ delivered = <<1, 2, 3>>

\* C4: when a new reliable frame is stored and the delivery pass then finds
\* last_delivered + 1 absent while the oldest pending entry has waited
\* T_THRESHOLD or more, every seq from last_delivered + 1 up to the smallest
\* pending seq is skipped (the watermark passes it without a callback) and
\* the smallest pending seq is the first one the pass delivers.
SkipAfterTimeout ==
    [][\A s \in Seqs :
         LET held == DOMAIN pending_reliable \cup {s}
             m == MinOf(held)
         IN  (/\ now' = now
              /\ LastInReliable(s)'
              /\ s > last_delivered
              /\ s \notin DOMAIN pending_reliable
              /\ last_delivered + 1 \notin held
              /\ \E x \in DOMAIN pending_reliable :
                     now - pending_reliable[x] >= T_THRESHOLD)
             => /\ last_delivered' >= m
                /\ \A x \in (last_delivered + 1)..(m - 1) :
                       /\ x \in Range(skipped')
                       /\ x \notin Range(delivered')
                /\ m \notin Range(skipped')
                /\ receive_callback =>
                       /\ out_calls' # <<>>
                       /\ out_calls'[1] = [seq |-> m, reliable |-> TRUE]
    ]_vars

\* C4 witness: seq 2 arrived, seq 1 did not, and seq 3 arrived T_THRESHOLD or
\* more later: 1 was skipped, then 2 and 3 were delivered by that one pass.
SkipAfterTimeoutWitness ==
    /\ skipped = <<1>>
    /\ delivered = <<2, 3>>
    /\ LastInReliable(3)
    /\ Len(out_calls) = 2

\* C5 (checked under RecvLiveSpec): a frame held behind a missing seq, once
\* the oldest pending entry has waited T_THRESHOLD, is eventually delivered,
\* also when only copies of the pending frames keep arriving.
HeadOfLineWaitIsBounded ==
    \A s \in Seqs :
        (/\ receive_callback
         /\ s \in DOMAIN pending_reliable
         /\ now - OldestArrival(pending_reliable) >= T_THRESHOLD)
        ~> (s \in Range(delivered))

\* C10: every reliable data frame that arrives has exactly one ACK for its
\* seq sent back; and when its seq is <= last_delivered or already pending,
\* last_delivered and the pending set stay as they are and no callback is
\* called.
AckEveryReliableFrame ==
    [][\A s \in Seqs :
         (now' = now /\ LastInReliable(s)')
         => /\ out_acks' = <<s>>
            /\ (s <= last_delivered \/ s \in DOMAIN pending_reliable)
               => /\ last_delivered' = last_delivered
                  /\ pending_reliable' = pending_reliable
                  /\ delivered' = delivered
                  /\ out_calls' = <<>>
    ]_vars

\* C10 witness: a copy of a frame that is still pending arrived after the
\* stored one, and was acknowledged.
AckEveryReliableFrameWitness ==
    /\ last_in.reliable
    /\ last_in.seq \in DOMAIN pending_reliable
    /\ pending_reliable[last_in.seq] < now
    /\ out_acks = <<last_in.seq>>
    /\ out_calls = <<>>

----------------------------------------------------------------------------
\* Properties of the sender (SendSpec)

\* lifetime_threshold / retry_interval
MaxAttempts == T_THRESHOLD \div RETX_INTERVAL

\* C6 as stated: a reliable send that is given up has transmitted its frame
\* exactly lifetime_threshold / retry_interval times.
GiveUpAfterExactAttempts ==
    \A s \in gave_up : tx_count[s] = MaxAttempts

\* C6 as amended: no reliable send transmits its frame more than
\* lifetime_threshold / retry_interval times; one that is given up has
\* transmitted it at least once, and
\* exactly that many times when its task was always resumed at the time it was
\* due; from then on its task is over, no further frame of the seq is sent and
\* sent_buffer holds no entry for it.
GiveUpBounded ==
    [][/\ \A s \in DOMAIN task' : tx_count'[s] <= MaxAttempts
       /\ \A s \in gave_up' :
            /\ task'[s].pc = "done"
            /\ s \notin DOMAIN sent_buffer'
            /\ tx_count'[s] >= 1
            /\ s \notin late' => tx_count'[s] = MaxAttempts
            /\ s \in gave_up => tx_count'[s] = tx_count[s]
    ]_vars

\* C6 witness: a send was given up after MaxAttempts transmissions by a task
\* that was never resumed late, T_THRESHOLD after the send.
GiveUpBoundedWitness ==
    \E s \in gave_up :
        /\ s \notin late
        /\ tx_count[s] = MaxAttempts
        /\ task[s].pc = "done"
        /\ now >= T_THRESHOLD

\* C7: once the task of a seq is over, by ACK or by give-up, sent_buffer holds
\* no entry for the seq.
EntryDestroyedOnExit ==
    \A s \in DOMAIN task : task[s].pc = "done" => s \notin DOMAIN sent_buffer

\* C8: once the entry of a seq is marked acked, no further frame of the seq
\* is sent, no give-up diagnostic is printed for it, and the next step of its
\* task ends the task.
AckStopsRetry ==
    [][\A s \in DOMAIN sent_buffer :
         sent_buffer[s].acked
         => /\ tx_count'[s] = tx_count[s]
            /\ s \notin gave_up'
            /\ s \in DOMAIN task /\ task'[s] # task[s] => task'[s].pc = "done"
    ]_vars

\* C8 witness: an ACK arrived while the task slept after a retransmission,
\* and the task has ended since.
AckStopsRetryWitness ==
    \E s \in DOMAIN sent_buffer :
        /\ sent_buffer[s].acked
        /\ sent_buffer[s].attempts >= 2
        /\ task[s].pc = "done"

\* C9: mark_acked(seq) for a seq without an entry creates no entry and
\* changes no entry, no task and no transmission count; and mark_acked(seq)
\* for any seq leaves the entries and tasks of all other seqs as they are.
StrayAckIsBenign ==
    [][\A s \in AckSeqs :
         MarkAcked(s)
         => /\ DOMAIN sent_buffer' = DOMAIN sent_buffer
            /\ \A o \in DOMAIN sent_buffer \ {s} : sent_buffer'[o] = sent_buffer[o]
            /\ task' = task
            /\ tx_count' = tx_count
            /\ gave_up' = gave_up
            /\ s \notin DOMAIN sent_buffer => sent_buffer' = sent_buffer
    ]_vars

\* C9 witness: the latest ACK found no entry, after a give-up, while the
\* task of another seq sleeps between transmissions.
StrayAckIsBenignWitness ==
    /\ ack_note = "ACK for already-removed seq"
    /\ gave_up # {}
    /\ \E s \in DOMAIN sent_buffer :
           /\ ~sent_buffer[s].acked
           /\ task[s].pc = "sleeping"

----------------------------------------------------------------------------
\* Properties of the receiver with faults (RecvFaultSpec)

\* C11: a datagram that is not an ACK and is shorter than a header is dropped:
\* no exception leaves the frame-arrival handler, no ACK is sent, no callback
\* is called, and last_delivered and the pending set stay as they are.
ShortFrameIsDropped ==
    [][(now' = now /\ last_len' # None /\ last_len' < HEADER_LEN)
       => /\ raised' = ""
          /\ out_acks' = <<>>
          /\ out_calls' = <<>>
          /\ last_delivered' = last_delivered
          /\ pending_reliable' = pending_reliable
    ]_vars

\* C14: when the callback raises while reliable seqs are being delivered, no
\* exception leaves the frame-arrival handler; each such seq is out of the
\* pending set and at or below last_delivered, and the seq after it, when it
\* is held, is delivered by the same pass.
CallbackErrorIsCaught ==
    [][\A s \in Seqs :
         (now' = now /\ LastInReliable(s)' /\ cb_errors' # <<>>)
         => /\ raised' = ""
            /\ \A x \in Range(cb_errors') :
                   /\ x \notin DOMAIN pending_reliable'
                   /\ last_delivered' >= x
                   /\ x \in Range(SeqsOf(out_calls'))
                   /\ x + 1 \in DOMAIN pending_reliable \cup {s}
                      => x + 1 \in Range(SeqsOf(out_calls'))
    ]_vars

\* C14 witness: the callback raised on the first seq of a pass, and the pass
\* delivered the next seq too.
CallbackErrorIsCaughtWitness ==
    /\ last_in.reliable
    /\ Len(out_calls) >= 2
    /\ cb_errors = <<out_calls[1].seq>>
    /\ last_delivered >= out_calls[2].seq
    /\ raised = ""

\* C17: after every call of the frame-arrival handler, every pending seq is
\* greater than last_delivered + 1: nothing at or below the watermark is
\* held, and the next expected seq is never left pending.
PendingAboveExpected ==
    \A s \in DOMAIN pending_reliable : s > last_delivered + 1

\* C17 witness: a pass delivered frames, one of them with a callback that
\* raised, and left frames pending behind a gap.
PendingAboveExpectedWitness ==
    /\ last_in.reliable
    /\ Len(out_calls) >= 2
    /\ cb_errors # <<>>
    /\ DOMAIN pending_reliable # {}

----------------------------------------------------------------------------
\* More properties of the receiver (RecvSpec)

\* C13: an unreliable frame that arrives is passed to the callback, when one
\* is registered, exactly once by that call and with reliable=False; no ACK
\* is sent for it; and last_delivered, the pending set and the reliable
\* deliveries and skips stay as they are, whatever its seq.
UnreliablePassesThrough ==
    [][\A s \in Seqs :
         (now' = now /\ last_in' = [seq |-> s, reliable |-> FALSE])
         => /\ receive_callback => out_calls' = <<[seq |-> s, reliable |-> FALSE]>>
            /\ out_acks' = <<>>
            /\ last_delivered' = last_delivered
            /\ pending_reliable' = pending_reliable
            /\ delivered' = delivered
            /\ skipped' = skipped
    ]_vars

\* C13 witness: an unreliable frame with a seq below the watermark arrived
\* while reliable frames were pending, and was passed to the callback.
UnreliablePassesThroughWitness ==
    /\ ~last_in.reliable
    /\ last_in.seq >= 1
    /\ last_in.seq < last_delivered
    /\ DOMAIN pending_reliable # {}
    /\ out_calls = <<last_in>>

\* C18: a seq is skipped only by a pass in which it is not held, a greater
\* seq is held, and a pending entry has waited T_THRESHOLD or more; a pass
\* that ends leaves no such gap behind; and last_delivered moves only in a
\* pass, over seqs that are held or that the pass skipped.
SkipOnlyOnTimedOutGap ==
    [][LET news == {skipped'[i] : i \in (Len(skipped) + 1)..Len(skipped')}
           held == IF last_in'.reliable
                   THEN DOMAIN pending_reliable \cup {last_in'.seq}
                   ELSE DOMAIN pending_reliable
           pass == /\ now' = now
                   /\ last_in'.reliable
                   /\ last_in'.seq > last_delivered
                   /\ last_in'.seq \notin DOMAIN pending_reliable
       IN  /\ \A x \in news :
                /\ x \notin held
                /\ \E y \in held : y > x
                /\ \E y \in DOMAIN pending_reliable :
                       y > x /\ now - pending_reliable[y] >= T_THRESHOLD
           /\ pass => \/ DOMAIN pending_reliable' = {}
                       \/ \A y \in DOMAIN pending_reliable' :
                              now' - pending_reliable'[y] < T_THRESHOLD
           /\ \A x \in (last_delivered + 1)..last_delivered' :
                  x \in news \/ x \in held
           /\ ~pass => last_delivered' = last_delivered
    ]_vars

\* C18 witness: seq 2 arrived first and seq 4 arrived T_THRESHOLD later: the
\* pass skipped 1, delivered 2, and stopped at the gap before 4, which has
\* not waited.
SkipOnlyOnTimedOutGapWitness ==
    /\ skipped = <<1>>
    /\ delivered = <<2>>
    /\ DOMAIN pending_reliable = {4}
    /\ LastInReliable(4)
    /\ now - pending_reliable[4] < T_THRESHOLD

----------------------------------------------------------------------------
\* More properties of the sender (SendSpec)

\* C12: the k-th call of send_data returns seq k, for any mix of reliable
\* and unreliable sends: the seqs start at 1, grow by one and none is used
\* twice, also after a reliable send was acked or given up.
SendReturnsCallNumber ==
    \A k \in DOMAIN returned : returned[k] = k

\* C12 witness: the second send was made after the task of the first, a
\* reliable send, had ended by ACK (a task never resumed late ends
\* RETX_INTERVAL after its last transmission).
SendReturnsCallNumberWitness ==
    /\ returned = <<1, 2>>
    /\ 1 \in DOMAIN task
    /\ task[1] = Done
    /\ 1 \notin late
    /\ 1 \in DOMAIN sent_buffer
    /\ sent_buffer[1].acked
    /\ 2 \in DOMAIN sent_buffer
    /\ sent_buffer[2].send_ts
           > sent_buffer[1].send_ts + RETX_INTERVAL * sent_buffer[1].attempts

----------------------------------------------------------------------------
\* Properties of the receiving application (AppSpec)

\* C15: in every report, the delivery ratio of a channel is the received
\* count over the count the sender reported, times 100 (within half a unit
\* of the printed precision), when the sender reported a positive count; it
\* is undefined (None, printed N/A) when the summary lacks the count or
\* reports 0.
DeliveryRatioOfReport ==
    last_summary.type = "STATS"
    => \A c \in Channels :
          LET sent == IF c = "reliable" THEN last_summary.sent_reliable
                      ELSE last_summary.sent_unreliable
          IN  IF sent # None /\ sent > 0
              THEN LET d == report[c].pdr * sent - report[c].received * 100 * PdrUnit
                   IN  /\ report[c].pdr >= 0
                       /\ 2 * d <= sent
                       /\ 2 * d > -sent
              ELSE report[c].pdr = None

\* C15 witness: a report over a summary with a positive count for one
\* channel and no count for the other, with frames received on both: two
\* of two reliable frames give 100.00 percent.
DeliveryRatioOfReportWitness ==
    /\ last_summary.type = "STATS"
    /\ last_summary.sent_reliable = 2
    /\ last_summary.sent_unreliable = None
    /\ report["reliable"] = [received |-> 2, pdr |-> 100 * PdrUnit]
    /\ report["unreliable"].received >= 1
    /\ report["unreliable"].pdr = None

\* C20: on each channel the received count equals the number of distinct
\* seqs in the seen set, after any arrivals, duplicates included.
ReceivedCountsDistinctSeqs ==
    \A c \in Channels : recv_count[c] = Cardinality(seen_seqs[c])

----------------------------------------------------------------------------
\* Properties of _report_final (ReportSpec) and of JitterEstimator (JitterSpec)

\* C16: the first call of update returns 0 and leaves J as it is; and while
\* all samples so far have the same difference arrival_ts - sender_ts, J is
\* 0 and update returns 0.
JitterZeroOnConstantDelay ==
    [][n_samples' = n_samples + 1
       => /\ n_samples = 0 => (j_ret' = 0 /\ J' = J)
          /\ Cardinality(delays') = 1 => (J' = 0 /\ j_ret' = 0)
    ]_vars

\* C16 witness: three samples with the same difference of 1 ms, the
\* timestamps moving on: the estimate is 0.
JitterZeroOnConstantDelayWitness ==
    /\ n_samples = 3
    /\ delays = {1}
    /\ prev_sender_ts # 0
    /\ J = 0
    /\ j_ret = 0

----------------------------------------------------------------------------
\* Properties of a sender and a receiver joined by a transport (LinkSpec)

\* C19: when the transport delivers every frame once and in the order sent,
\* every reliable frame that has arrived has been delivered to the
\* application by the call of its arrival, and no seq is skipped as lost.
ReliableDeliveredOnArrival ==
    /\ \A s \in arrived : s \in Range(delivered)
    /\ skipped = <<>>

====
